---- MODULE Spec2Model ----
(***************************************************************************)
(* A model of the PSK31 modulator of ftl/digimodes (src/psk31/psk31.go).   *)
(*                                                                         *)
(* Goroutines: the producer (the caller of Write and End), the packer      *)
(* (Modulator.pack), the sampler (the caller of Modulate) and the callers  *)
(* of Close.  The channels symbols and packed are unbuffered: a value      *)
(* passes only when sender and receiver meet.  A goroutine that reaches a  *)
(* select takes one of the cases that can proceed at that moment; if none  *)
(* can, it parks, and the first event that makes a case ready (a partner   *)
(* arriving, a channel being closed) decides the select.                   *)
(*                                                                         *)
(* Amplitudes are kept in units of 1/window, phases in units of pi, and    *)
(* Modulate is sampled at whole milliseconds.                              *)
(***************************************************************************)
EXTENDS Integers, Sequences, FiniteSets, TLC

\* ---------------------------------------------------------------- constants
window == 10
raster == 32
preambleLength == 25
endLength == 25

\* ------------------------------------------------------------------- bounds
\* number of Write/End calls the producer makes
MaxCalls == 3
\* longest payload of one Write
MaxPayload == 2
\* number of symbols fed to the packer by the packer test
MaxSymbols == 3
\* longest generated Varicode pattern of the packer test
MaxPatLen == 4

VARIABLES
    closed,            \* m.closed has been closed
    panicked,          \* "none", or the panic that ended the program
    hclosed,           \* per acknowledgement handle: the channel is closed
    pPc, pCall, callNo,        \* producer: position, current call, calls made
    kPc, packer, pend,         \* packer goroutine: position, symbolPacker, sends left in Pack
    sPc, block, blocks,        \* sampler: position, m.block, m.blocks
    phaseSwitchCycle,          \* m.phaseSwitchCycle
    out,                       \* last Modulate call: what it returned and what it saw
    clock,                     \* last Modulate call: its raster cell, int(1000 t) % raster
    cPc, closeCalls,           \* Close callers: position, calls returned (none, one, more)
    ticks,             \* history: boundary ticks counted for a handle
    calls,             \* history: the Modulate calls of the current baud period
    hist,              \* history: counters of the pipeline, what Next dequeued last
    tIn, tOut, tDone,  \* packer test: symbols fed, contents of packed, token fed
    cw,                \* cw.WriteToSymbolStream: its argument, locals and stream
    wspr               \* wspr.alignCallsign: its argument and what came of the call

vars == <<closed, panicked, hclosed, pPc, pCall, callNo, kPc, packer, pend,
          sPc, block, blocks, phaseSwitchCycle, out, clock, cPc, closeCalls,
          ticks, calls, hist, tIn, tOut, tDone, cw, wspr>>

\* ------------------------------------------------------------ bit helpers
Pow2(n) == 2 ^ n
Bit(x, i) == (x \div Pow2(i)) % 2

RECURSIVE LeftAlign(_, _)
\* the 16-bit Symbol whose leading bits are the sequence b
LeftAlign(b, i) ==
    IF i > Len(b) THEN 0 ELSE b[i] * Pow2(16 - i) + LeftAlign(b, i + 1)

\* ------------------------------------------------------------ Varicode
\* The table itself is not part of the sources at hand; these entries are the
\* ones the packer test and the specification name.
VaricodeTable ==
    [c \in {45, 65, 66, 97, 116} |->
        CASE c = 45  -> LeftAlign(<<1, 1, 0, 1, 0, 1>>, 1)
          [] c = 65  -> LeftAlign(<<1, 1, 1, 1, 1, 0, 1>>, 1)
          [] c = 66  -> LeftAlign(<<1, 1, 1, 0, 1, 0, 1, 1>>, 1)
          [] c = 97  -> LeftAlign(<<1, 0, 1, 1>>, 1)
          [] c = 116 -> LeftAlign(<<1, 0, 1>>, 1)]

\* variant: a byte above 0x7F finds no entry and gives the zero Symbol
VaricodeHighAsZero(b) == IF b < 128 THEN VaricodeTable[b] ELSE 0
\* Varicode[b&0x7F]
Varicode(b) == VaricodeTable[b % 128]

\* ------------------------------------------------------------ symbolPacker
NewPacker == [out |-> 0, lastWasZero |-> FALSE, outBitIndex |-> 0, dirty |-> FALSE]

Unit(v) == [type |-> "unit", val |-> v, h |-> 0]
Token(t, h) == [type |-> t, val |-> 0, h |-> h]
Sym(v) == [type |-> "sym", val |-> v, h |-> 0]

\* variant: Pack stops at every 0 bit
RunShortenAlways(lastWasZero, inBit) == inBit = 0
\* the run-shortening test of Pack: the previous bit and this one are both 0
RunShorten(lastWasZero, inBit) == lastWasZero /\ inBit = 0

RECURSIVE PackBits(_, _, _, _)
\* the loop of Pack over the bits i, i-1, ..., 0 of the Symbol in
PackBits(p, in, i, emitted) ==
    IF i < 0 THEN [p |-> p, emitted |-> emitted]
    ELSE LET inBit == Bit(in, i)
             shifted == (p.out * 2 + inBit) % 256
             idx == (p.outBitIndex + 1) % 8
             full == idx = 0
             p1 == [p EXCEPT !.out = IF full THEN 0 ELSE shifted,
                             !.outBitIndex = idx]
             e1 == IF full THEN Append(emitted, Unit(shifted)) ELSE emitted
         IN  IF RunShorten(p.lastWasZero, inBit)
             THEN [p |-> p1, emitted |-> e1]
             ELSE PackBits([p1 EXCEPT !.lastWasZero = (inBit = 0)], in, i - 1, e1)

\* Flush returns at once: nothing is held back
FlushSkips(p) == (p.outBitIndex = 0 /\ p.lastWasZero) \/ ~p.dirty

\* variant: the extra unit follows a padded unit whose two low bits are 0
ExtraZeroWhenLowBitsClear(padded) == padded % 4 = 0
\* Flush sends one more all-zero unit after the padded one
ExtraZero(padded) == padded % 4 # 0

Flush(p) ==
    IF FlushSkips(p)
    THEN [p |-> [p EXCEPT !.dirty = FALSE], emitted |-> <<>>]
    ELSE LET padded == (p.out * Pow2(8 - p.outBitIndex)) % 256
         IN  [p |-> [p EXCEPT !.out = 0, !.outBitIndex = 0, !.dirty = FALSE],
              emitted |-> IF ExtraZero(padded)
                          THEN <<Unit(padded), Unit(0)>>
                          ELSE <<Unit(padded)>>]

\* variant: the token overtakes the units Flush sends
TokenSendsFirst(flushed, s) == <<s>> \o flushed
\* the sends of Pack for a token: the flushed units, then the token
TokenSends(flushed, s) == Append(flushed, s)

\* Pack: the packer after the call and the values it sends to packed, in order
Pack(p, s) ==
    IF s.type = "sym"
    THEN PackBits([p EXCEPT !.dirty = TRUE], s.val, 15, <<>>)
    ELSE LET f == Flush(p) IN [p |-> f.p, emitted |-> TokenSends(f.emitted, s)]

UnitsOf(items) == SelectSeq(items, LAMBDA x : x.type = "unit")

\* ------------------------------------------------------------ blocks
Handles == 1 .. 2 * MaxCalls
NoHandle == 0

newBlocks ==
    [_off      |-> [closed |-> FALSE],
     _preamble |-> [cycles |-> 0, token |-> NoHandle],
     _transmit |-> [bits |-> 0, bitIndex |-> 0, finished |-> FALSE],
     _end      |-> [cycles |-> 0, token |-> NoHandle]]

off(b, c) == [b EXCEPT !._off.closed = c]

\* variant: a Preamble segment one cycle short
preambleShort(b, token) ==
    [b EXCEPT !._preamble = [cycles |-> preambleLength - 1, token |-> token]]
preamble(b, token) == [b EXCEPT !._preamble = [cycles |-> preambleLength, token |-> token]]

transmit(b, bits) ==
    [b EXCEPT !._transmit = [bits |-> bits, bitIndex |-> 0, finished |-> FALSE]]

\* variant: an End segment one cycle short
endShort(b, token) == [b EXCEPT !._end = [cycles |-> endLength - 1, token |-> token]]
end(b, token) == [b EXCEPT !._end = [cycles |-> endLength, token |-> token]]

\* the other of the two phases 0 and pi
Flip(p) == IF p = 0 THEN 1 ELSE 0

\* A Cycle result: the values returned, and the blocks, handles and tick
\* counts as the call leaves them; panic when the call closed a closed channel.
CycleResult(amplitude, phase, need, b, hc, tk) ==
    [amplitude |-> amplitude, phase |-> phase, needNextBlock |-> need,
     blocks |-> b, hclosed |-> hc, ticks |-> tk, panic |-> FALSE]

\* variant: Off hands the amplitude it is given back
offCycleKeepsAmplitude(b, hc, tk, a, p, delta, psc) ==
    CycleResult(a, 0, ~b._off.closed, b, hc, tk)
offCycle(b, hc, tk, a, p, delta, psc) ==
    CycleResult(0, 0, ~b._off.closed, b, hc, tk)

\* variant: the countdown does not look at the token and closes it whenever
\* the count is used up
CountdownWithoutSelect(cycles, token, hc, tk) ==
    [cycles |-> cycles - 1,
     hclosed |-> IF cycles - 1 <= 0 THEN [hc EXCEPT ![token] = TRUE] ELSE hc,
     ticks |-> [tk EXCEPT ![token] = @ + 1],
     need |-> cycles - 1 <= 0,
     panic |-> cycles - 1 <= 0 /\ hc[token]]
\* the countdown shared by preambleBlock.Cycle and endBlock.Cycle on a
\* boundary tick: the select on the token, and in its default case the
\* decrement and the close at 0 (close of a closed channel panics)
Countdown(cycles, token, hc, tk) ==
    IF hc[token]
    THEN [cycles |-> cycles, hclosed |-> hc, ticks |-> tk, need |-> TRUE,
          panic |-> FALSE]
    ELSE [cycles |-> cycles - 1,
          hclosed |-> IF cycles - 1 = 0 THEN [hc EXCEPT ![token] = TRUE] ELSE hc,
          ticks |-> [tk EXCEPT ![token] = @ + 1],
          need |-> cycles - 1 = 0,
          panic |-> cycles - 1 = 0 /\ hc[token]]

preambleCycle(b, hc, tk, a, p, delta, psc) ==
    LET amplitude == IF b._preamble.cycles = preambleLength THEN a ELSE delta
    IN  IF psc
        THEN LET c == Countdown(b._preamble.cycles, b._preamble.token, hc, tk)
             IN  [CycleResult(amplitude, Flip(p), c.need,
                              [b EXCEPT !._preamble.cycles = c.cycles], c.hclosed,
                              c.ticks) EXCEPT !.panic = c.panic]
        ELSE CycleResult(amplitude, p, FALSE, b, hc, tk)

\* variant: every unit is finished after its first bit
FinishedAfterFirstBit(bits, bitIndex) == TRUE
\* transmitBlock is finished with its unit
Finished(bits, bitIndex) == bits = 0 \/ bitIndex = 0

\* variant: the bits are taken least significant first
BitAtFromLow(bits, bitIndex) == Bit(bits, bitIndex)
\* the bit of line 322
BitAt(bits, bitIndex) == Bit(bits, 7 - bitIndex)

\* variant: a 0 bit switches the phase in every call
SwitchPhaseOffBoundary(psc, bit) == bit = 0
\* switchPhase, lines 319 and 329: on a boundary tick, for a 0 bit
SwitchPhase(psc, bit) == psc /\ bit = 0

\* variant: a finished transmit block keys 1 bits
IdleBitOne(bits) == 1
\* the bit of a finished transmit block, line 325
IdleBit(bits) == 0

transmitCycle(b, hc, tk, a, p, delta, psc) ==
    LET t == b._transmit
        take == psc /\ ~t.finished
        bit == IF take THEN BitAt(t.bits, t.bitIndex) ELSE IdleBit(t.bits)
        idx == IF take THEN (t.bitIndex + 1) % 8 ELSE t.bitIndex
        fin == IF take THEN Finished(t.bits, idx) ELSE t.finished
        phase == IF SwitchPhase(psc, bit) THEN Flip(p) ELSE p
    IN  CycleResult(delta, phase, fin,
                    [b EXCEPT !._transmit.bitIndex = idx, !._transmit.finished = fin],
                    hc, tk)

\* variant: the End segment flips the phase as the Preamble does
endCycleFlipping(b, hc, tk, a, p, delta, psc) ==
    LET amplitude == IF b._end.cycles = endLength /\ a < delta THEN delta
                     ELSE IF b._end.cycles = 1 /\ a > delta THEN delta
                     ELSE a
    IN  IF psc
        THEN LET c == Countdown(b._end.cycles, b._end.token, hc, tk)
             IN  [CycleResult(amplitude, Flip(p), c.need,
                              [b EXCEPT !._end.cycles = c.cycles], c.hclosed,
                              c.ticks) EXCEPT !.panic = c.panic]
        ELSE CycleResult(amplitude, p, FALSE, b, hc, tk)
endCycle(b, hc, tk, a, p, delta, psc) ==
    LET amplitude == IF b._end.cycles = endLength /\ a < delta THEN delta
                     ELSE IF b._end.cycles = 1 /\ a > delta THEN delta
                     ELSE a
    IN  IF psc
        THEN LET c == Countdown(b._end.cycles, b._end.token, hc, tk)
             IN  [CycleResult(amplitude, p, c.need,
                              [b EXCEPT !._end.cycles = c.cycles], c.hclosed,
                              c.ticks) EXCEPT !.panic = c.panic]
        ELSE CycleResult(amplitude, p, FALSE, b, hc, tk)

\* m.block.Cycle(a, p, delta, phaseSwitchCycle), dispatched on the block's type
Cycle(cur, b, hc, tk, a, p, delta, psc) ==
    CASE cur = "off"      -> offCycle(b, hc, tk, a, p, delta, psc)
      [] cur = "preamble" -> preambleCycle(b, hc, tk, a, p, delta, psc)
      [] cur = "transmit" -> transmitCycle(b, hc, tk, a, p, delta, psc)
      [] cur = "end"      -> endCycle(b, hc, tk, a, p, delta, psc)

\* the ramp value of Modulate at raster cell rasterTime (whole milliseconds)
\* variant: the ramp goes on rising after the rise window
DeltaWithoutPlateau(rasterTime) == rasterTime
Delta(rasterTime) ==
    IF rasterTime < window THEN rasterTime
    ELSE IF rasterTime > raster - window THEN raster - rasterTime
    ELSE window

\* ------------------------------------------------------------ cw
\* longest text of the enumerated inputs of WriteToSymbolStream
MaxText == 3

Dit == [Weight |-> 1, KeyDown |-> TRUE]
Da == [Weight |-> 3, KeyDown |-> TRUE]
SymbolBreak == [Weight |-> 1, KeyDown |-> FALSE]
CharBreak == [Weight |-> 3, KeyDown |-> FALSE]
WordBreak == [Weight |-> 7, KeyDown |-> FALSE]

\* the entries of the morse code table for a, e, i, p, r, s
Code ==
    [r \in {97, 101, 105, 112, 114, 115} |->
        CASE r = 97  -> <<Dit, Da>>
          [] r = 101 -> <<Dit>>
          [] r = 105 -> <<Dit, Dit>>
          [] r = 112 -> <<Dit, Da, Da, Dit>>
          [] r = 114 -> <<Dit, Da, Dit>>
          [] r = 115 -> <<Dit, Dit, Dit>>]

\* strings.ToLower, on the runes used here
ToLower(str) ==
    [k \in 1 .. Len(str) |-> IF str[k] \in 65 .. 90 THEN str[k] + 32 ELSE str[k]]

\* unicode.IsSpace, on the runes below 0x100
IsSpace(r) == r \in {9, 10, 11, 12, 13, 32, 133, 160}

\* the runes of the enumerated texts: P, a, e, space, tab and #, which has
\* no code
Runes == {80, 97, 101, 32, 9, 35}

RECURSIVE Strings(_)
Strings(n) ==
    IF n = 0 THEN {<<>>}
    ELSE LET shorter == Strings(n - 1)
         IN  shorter \cup {Append(t, r) : t \in {u \in shorter : Len(u) = n - 1}, r \in Runes}

\* "Paris Paris", the text of TestWriteToSymbolStream
ParisParis == <<80, 97, 114, 105, 115, 32, 80, 97, 114, 105, 115>>

Texts == Strings(MaxText) \cup {ParisParis}

\* s, normalized, the position in the loop, wasWhitespace, the symbols written
CwIdle == [s |-> <<>>, text |-> <<>>, pc |-> "idle", i |-> 0, wasWhitespace |-> TRUE,
           out |-> <<>>]

RECURSIVE CodeSymbols(_, _)
\* the loop of lines 132-138 from element k of code on
CodeSymbols(code, k) ==
    IF k > Len(code) THEN <<>>
    ELSE (IF k > 1 THEN <<SymbolBreak>> ELSE <<>>) \o <<code[k]>> \o CodeSymbols(code, k + 1)

\* variant: a CharBreak before every character
CharBreakAlways(wasWhitespace) == TRUE
\* the test of line 128
NeedsCharBreak(wasWhitespace) == ~wasWhitespace

\* ------------------------------------------------------------ wspr
\* longest callsign of the enumerated inputs of alignCallsign
MaxCallsign == 5

isNumber(b) == b >= 48 /\ b <= 57
isLetter(b) == b >= 65 /\ b <= 90
isSpace(b) == b = 32
isSuffix(b) == isLetter(b) \/ isSpace(b)

\* strings.ToUpper, on ASCII
ToUpper(str) ==
    [k \in 1 .. Len(str) |-> IF str[k] \in 97 .. 122 THEN str[k] - 32 ELSE str[k]]

RECURSIVE PadTo6(_)
\* the loop of lines 137-139
PadTo6(str) == IF Len(str) < 6 THEN PadTo6(Append(str, 32)) ELSE str

\* what a call makes of its argument: a result, an error, or a panic
Returned(aligned) == [kind |-> "ok", aligned |-> aligned, err |-> ""]
Failed(err) == [kind |-> "error", aligned |-> <<>>, err |-> err]
Panicked(msg) == [kind |-> "panic", aligned |-> <<>>, err |-> msg]

\* alignCallsign(callsign); callsign[1] is the second byte, and indexing a
\* string beyond its length panics
alignCallsign(callsign) ==
    IF Len(callsign) < 2 THEN Panicked("index out of range")
    ELSE LET prefixed == IF isNumber(callsign[2]) THEN <<32>> \o callsign ELSE callsign
             aligned == ToUpper(PadTo6(prefixed))
         IN  IF Len(prefixed) > 6 THEN Failed("callsign too long (> 6)")
             ELSE IF ~(isNumber(aligned[1]) \/ isLetter(aligned[1]) \/ isSpace(aligned[1]))
             THEN Failed("wrong character at callsign start")
             ELSE IF ~isLetter(aligned[2])
             THEN Failed("callsign must have a letter in the prefix")
             ELSE IF ~isNumber(aligned[3])
             THEN Failed("callsign must have number at 2nd or 3rd place")
             ELSE IF ~(isSuffix(aligned[4]) /\ isSuffix(aligned[5]) /\ isSuffix(aligned[6]))
             THEN Failed("callsign must only have letters in the suffix")
             ELSE Returned(aligned)

\* the bytes of the enumerated callsigns: a, G, 1, space and -
CallsignBytes == {97, 71, 49, 32, 45}

RECURSIVE CallsignsOf(_)
CallsignsOf(n) ==
    IF n = 0 THEN {<<>>}
    ELSE LET shorter == CallsignsOf(n - 1)
         IN  shorter \cup {Append(t, b) : t \in {u \in shorter : Len(u) = n - 1},
                                          b \in CallsignBytes}

\* the values of TestAlignCallsign: dl1abcd, g9abcd, 9ab, dl9000, dl1abc,
\* dl1ab, g1ab, 9a1ab
TestCallsigns ==
    {<<100, 108, 49, 97, 98, 99, 100>>, <<103, 57, 97, 98, 99, 100>>, <<57, 97, 98>>,
     <<100, 108, 57, 48, 48, 48>>, <<100, 108, 49, 97, 98, 99>>,
     <<100, 108, 49, 97, 98>>, <<103, 49, 97, 98>>, <<57, 97, 49, 97, 98>>}

Callsigns == CallsignsOf(MaxCallsign) \cup TestCallsigns

WsprIdle == [pc |-> "idle", callsign |-> <<>>, result |-> Returned(<<>>)]

\* ------------------------------------------------------------ the engine
carrierFrequency == 1000

\* the payloads the producer writes: the empty one and the one of MaxPayload
\* bytes out of "", "-A" and "aat"
Payloads ==
    {b \in {<<>>, <<45, 65>>, <<97, 97, 116>>} : Len(b) \in {0, MaxPayload}}

\* payloads with bytes above 0x7F: 0xC1 = 'A' + 0x80 and 0xAD = '-' + 0x80
HighPayloads == {<<193>>, <<173, 65>>}

\* a call of the producer: its arguments, its loop index i and count n, its
\* handles, and history: whether it began after Close, the values it has
\* enqueued, the bytes enqueued before and after Close, whether its nil return
\* came after Close, the Symbols it has enqueued
NoCall == [kind |-> "none", bytes |-> <<>>, i |-> 0, n |-> 0, h1 |-> NoHandle,
           h2 |-> NoHandle, afterClose |-> FALSE, enq |-> 0, early |-> 0,
           late |-> 0, retClosed |-> FALSE, data |-> <<>>]

\* history of the Modulate calls: how many were made (none, one, more), how
\* many in the cell of the last one, whether the last one was a phase switch
\* boundary, how many boundaries the baud period of the last one has had, and
\* whether that period began after the first call
NoCalls == [n |-> 0, cell |-> 0, boundary |-> FALSE, count |-> 0, later |-> FALSE]

Closers == {"caller", "abort"}

\* the raster cells Modulate is sampled in: the boundary cell and a cell of
\* the plateau
SampleCells == {0, 16}

Init ==
    /\ closed = FALSE
    /\ panicked = "none"
    /\ hclosed = [h \in Handles |-> FALSE]
    /\ pPc = "idle" /\ pCall = NoCall /\ callNo = 0
    /\ kPc = "select" /\ packer = NewPacker /\ pend = <<>>
    /\ sPc = "idle" /\ block = "off" /\ blocks = off(newBlocks, FALSE)
    /\ phaseSwitchCycle = FALSE
    /\ \E p0 \in {0, 1} :
          out = [amplitude |-> 0, frequency |-> carrierFrequency, phase |-> p0,
                 pinned |-> FALSE, afterClose |-> FALSE, by |-> "none"]
    /\ clock = 0
    /\ cPc = [c \in Closers |-> "idle"] /\ closeCalls = 0
    /\ ticks = [h \in Handles |-> 0]
    /\ calls = NoCalls
    /\ hist = [queued |-> 0, unkeyed |-> 0, keyed |-> 0, sent |-> FALSE,
               nPre |-> 0, nEnd |-> 0, shape |-> "writes",
               lastTok |-> NoHandle, got |-> <<>>, idle |-> FALSE]
    /\ tIn = <<>> /\ tOut = <<>> /\ tDone = FALSE
    /\ cw = CwIdle
    /\ wspr = WsprIdle

Running == panicked = "none"

otherVars == <<tIn, tOut, tDone, cw, wspr>>
testVars == <<otherVars, calls>>
producerVars == <<pPc, pCall, callNo>>
packerVars == <<kPc, packer, pend>>
samplerVars == <<sPc, block, blocks, phaseSwitchCycle, out, clock, ticks>>
closeVars == <<closed, cPc, closeCalls>>

\* ---- producer: Write and End ------------------------------------------
StartWrite(bytes) ==
    /\ Running /\ pPc = "idle" /\ callNo < MaxCalls
    /\ callNo' = callNo + 1
    /\ pCall' = [NoCall EXCEPT !.kind = "write", !.bytes = bytes,
                               !.h1 = 2 * callNo + 1, !.h2 = 2 * callNo + 2,
                               !.afterClose = closed]
    /\ pPc' = "sendPre"
    /\ hist' = [hist EXCEPT !.shape = IF @ = "writes" /\ bytes # <<>>
                                      THEN "writes" ELSE "other"]
    /\ UNCHANGED <<hclosed, panicked, packerVars, samplerVars, closeVars, testVars>>

StartEnd ==
    /\ Running /\ pPc = "idle" /\ callNo < MaxCalls
    /\ callNo' = callNo + 1
    /\ pCall' = [NoCall EXCEPT !.kind = "end", !.h2 = 2 * callNo + 2,
                               !.afterClose = closed]
    /\ pPc' = "sendLast"
    /\ hist' = [hist EXCEPT !.shape = IF @ = "writes" /\ callNo > 0
                                      THEN "ended" ELSE "other"]
    /\ UNCHANGED <<hclosed, panicked, packerVars, samplerVars, closeVars, testVars>>

\* the value the producer is sending on symbols
CurrentItem ==
    CASE pPc = "sendPre" -> Token("pre", pCall.h1)
      [] pPc \in {"selByte", "parkByte"} -> Sym(Varicode(pCall.bytes[pCall.i]))
      [] pPc = "sendLast" ->
            Token(IF pCall.kind = "write" THEN "eot" ELSE "end", pCall.h2)

\* the producer once its send on symbols has been received
Sent ==
    /\ callNo' = callNo
    /\ IF pPc = "sendPre"
       THEN /\ pPc' = IF pCall.bytes = <<>> THEN "sendLast" ELSE "selByte"
            /\ pCall' = [pCall EXCEPT !.i = 1, !.enq = @ + 1]
       ELSE IF pPc = "sendLast"
       THEN /\ pPc' = "selAck"
            /\ pCall' = [pCall EXCEPT !.enq = @ + 1]
       ELSE /\ pPc' = IF pCall.i = Len(pCall.bytes) THEN "sendLast" ELSE "selByte"
            /\ pCall' = [pCall EXCEPT !.i = @ + 1, !.n = @ + 1, !.enq = @ + 1,
                                      !.early = IF closed THEN @ ELSE @ + 1,
                                      !.late = IF closed THEN @ + 1 ELSE @,
                                      !.data = Append(@, CurrentItem.val)]

\* the packer goroutine receiving s: packer.Pack(m.packed, s) up to its first send
Received(s) ==
    LET r == Pack(packer, s)
    IN  /\ packer' = r.p
        /\ pend' = r.emitted
        /\ kPc' = IF r.emitted = <<>> THEN "select" ELSE "pack"
        /\ hist' = [hist EXCEPT !.queued = @ + Len(UnitsOf(r.emitted))]

\* m.symbols <- token, lines 90, 103 and 61: the packer is waiting in its select
ProducerSend ==
    /\ Running /\ pPc \in {"sendPre", "sendLast"} /\ kPc = "parked"
    /\ Received(CurrentItem) /\ Sent
    /\ UNCHANGED <<hclosed, panicked, samplerVars, closeVars, testVars>>

\* variant: the bytes are sent as the tokens are, without a select
ByteSendUnguarded == FALSE
\* the select of Write's loop has a case <-m.closed
ByteSendWatchesClosed == TRUE

\* the select of lines 94-99, reached by the producer
ByteSelect ==
    /\ Running /\ pPc = "selByte"
    /\ \/ /\ kPc = "parked"
          /\ Received(CurrentItem) /\ Sent
       \/ /\ closed /\ ByteSendWatchesClosed
          /\ pPc' = "retAborted"
          /\ UNCHANGED <<pCall, callNo, packerVars, hist>>
       \/ /\ kPc # "parked" /\ ~(closed /\ ByteSendWatchesClosed)
          /\ pPc' = "parkByte"
          /\ UNCHANGED <<pCall, callNo, packerVars, hist>>
    /\ UNCHANGED <<hclosed, panicked, samplerVars, closeVars, testVars>>

\* the case <-eot or <-end can proceed: the token has been closed
AckReady(h) == hclosed[h]

\* the select of lines 104-109 and 62-67, reached by the producer
AckSelect ==
    /\ Running /\ pPc = "selAck"
    /\ \/ /\ AckReady(pCall.h2)
          /\ pPc' = "retOK"
          /\ pCall' = [pCall EXCEPT !.retClosed = closed]
       \/ /\ closed
          /\ pPc' = "retAborted"
          /\ pCall' = pCall
       \/ /\ ~AckReady(pCall.h2) /\ ~closed
          /\ pPc' = "parkAck"
          /\ pCall' = pCall
    /\ UNCHANGED <<callNo, hclosed, panicked, packerVars, samplerVars, closeVars,
                   hist, testVars>>

\* the call returns to the caller
Return ==
    /\ Running /\ pPc \in {"retOK", "retAborted"}
    /\ pPc' = "idle"
    /\ UNCHANGED <<pCall, callNo, hclosed, panicked, packerVars, samplerVars,
                   closeVars, hist, testVars>>

\* ---- packer goroutine: Modulator.pack ---------------------------------
\* the select of lines 115-120, reached by the packer
PackerSelect ==
    /\ Running /\ kPc = "select"
    /\ \/ /\ pPc \in {"sendPre", "sendLast", "parkByte"}
          /\ Received(CurrentItem) /\ Sent
       \/ /\ closed
          /\ kPc' = "done"
          /\ UNCHANGED <<packer, pend, producerVars, hist>>
       \/ /\ pPc \notin {"sendPre", "sendLast", "parkByte"} /\ ~closed
          /\ kPc' = "parked"
          /\ UNCHANGED <<packer, pend, producerVars, hist>>
    /\ UNCHANGED <<hclosed, panicked, samplerVars, closeVars, testVars>>

\* packed <- value: the packer reaches a send of Pack or Flush and waits there
PackerSend ==
    /\ Running /\ kPc = "pack"
    /\ kPc' = "sending"
    /\ UNCHANGED <<packer, pend, producerVars, hclosed, panicked, samplerVars,
                   closeVars, hist, testVars>>

\* ---- sampler: Modulate and blocks.Next --------------------------------
\* history: a count that tells none, one and more than one apart
More(n) == IF n < 2 THEN n + 1 ELSE n

\* close(s) on an acknowledgement handle; closing a closed channel panics
CloseHandle(hc, h) ==
    /\ hclosed' = [hc EXCEPT ![h] = TRUE]
    /\ panicked' = IF hc[h] THEN "close of closed token" ELSE panicked

\* variant: a preamble marker always opens a Preamble
NeverTransmit(cur) == FALSE
\* the type test of line 224
IsTransmit(cur) == cur = "transmit"

\* variant: the select of Next waits for one of its channels
NoDefault == FALSE
\* the select of Next has a default case, line 239
HasDefault == TRUE

\* variant: the select of Next does not look at closed
NeverSeesClosed == FALSE
\* the case <-closed of Next's select, line 237, can proceed
SeesClosed == closed

\* blocks.Next(m.packed, m.block, m.closed) with the blocks bl, the handles hc
\* and the history hs as Cycle left them.  After a token that is only
\* acknowledged, Next calls itself: the sampler is then at "next".  A select
\* without a default case would leave the sampler waiting when no case is
\* ready.
NextBlock(bl, hc, hs) ==
    \/ /\ kPc = "sending"
       /\ pend' = Tail(pend)
       /\ kPc' = IF Tail(pend) = <<>> THEN "select" ELSE "pack"
       /\ packer' = packer
       /\ LET s == Head(pend)
          IN  CASE s.type = "unit" ->
                     /\ blocks' = transmit(bl, s.val) /\ block' = "transmit"
                     /\ hclosed' = hc /\ panicked' = panicked /\ sPc' = "idle"
                     /\ hist' = [hs EXCEPT !.queued = @ - 1, !.unkeyed = @ + 1,
                                           !.keyed = 0, !.sent = TRUE,
                                           !.got = Append(@, s.val)]
                [] s.type = "pre" /\ IsTransmit(block) ->
                     /\ CloseHandle(hc, s.h)
                     /\ blocks' = bl /\ block' = block /\ sPc' = "next"
                     /\ hist' = [hs EXCEPT !.lastTok = s.h, !.got = <<>>]
                [] s.type = "pre" /\ ~IsTransmit(block) ->
                     /\ blocks' = preamble(bl, s.h) /\ block' = "preamble"
                     /\ hclosed' = hc /\ panicked' = panicked /\ sPc' = "idle"
                     /\ hist' = [hs EXCEPT !.nPre = More(@), !.lastTok = s.h, !.got = <<>>]
                [] s.type = "eot" ->
                     /\ CloseHandle(hc, s.h)
                     /\ blocks' = bl /\ block' = block /\ sPc' = "next"
                     /\ hist' = [hs EXCEPT !.lastTok = s.h, !.got = <<>>]
                [] s.type = "end" ->
                     /\ blocks' = end(bl, s.h) /\ block' = "end"
                     /\ hclosed' = hc /\ panicked' = panicked /\ sPc' = "idle"
                     /\ hist' = [hs EXCEPT !.nEnd = More(@), !.lastTok = s.h, !.got = <<>>]
    \/ /\ SeesClosed
       /\ blocks' = off(bl, TRUE) /\ block' = "off"
       /\ hclosed' = hc /\ panicked' = panicked /\ sPc' = "idle"
       /\ hist' = hs
       /\ UNCHANGED packerVars
    \/ /\ kPc # "sending" /\ ~SeesClosed
       /\ blocks' = bl /\ block' = block
       /\ hclosed' = hc /\ panicked' = panicked
       /\ sPc' = IF HasDefault THEN "idle" ELSE "waiting"
       /\ hist' = hs
       /\ UNCHANGED packerVars

\* a producer waiting for its token alone is released when the token is closed
Acknowledged ==
    /\ callNo' = callNo
    /\ IF pPc = "parkAck" /\ hclosed'[pCall.h2]
       THEN pPc' = "retOK" /\ pCall' = [pCall EXCEPT !.retClosed = closed]
       ELSE pPc' = pPc /\ pCall' = pCall

\* history: the bits keyed from the unit of the transmit block, and whether
\* the call keyed the idle bit of a finished transmit block
Keyed(hs, b, psc) ==
    LET h == [hs EXCEPT !.idle = block = "transmit" /\ psc /\ b._transmit.finished]
    IN  IF block = "transmit" /\ psc /\ ~b._transmit.finished
        THEN LET k == h.keyed + 1
             IN  [h EXCEPT !.keyed = k,
                           !.unkeyed = IF k = 8 \/ (b._transmit.bits = 0 /\ k = 1)
                                       THEN @ - 1 ELSE @]
        ELSE h

\* variant: Modulate hands the frequency it is given back
GivenFrequency(f) == f
\* the frequency Modulate returns
ReturnedFrequency(f) == carrierFrequency

\* variant: every call in cell 0 is a boundary
BoundaryInCell0(rasterTime, psc) == rasterTime = 0
\* the last argument of Cycle, line 191
Boundary(rasterTime, psc) == rasterTime = 0 /\ psc

\* Modulate(t, a, f, p) with int(1000 t) % raster = rasterTime, a and p the
\* values the previous call returned
ModulateCall(rasterTime, f) ==
    /\ Running /\ sPc = "idle"
    /\ LET psc == Boundary(rasterTime, phaseSwitchCycle)
           c == Cycle(block, blocks, hclosed, ticks, out.amplitude, out.phase,
                      Delta(rasterTime), psc)
       IN  /\ phaseSwitchCycle' = (rasterTime # 0)
           /\ out' = [amplitude |-> c.amplitude, frequency |-> ReturnedFrequency(f),
                      phase |-> c.phase,
                      pinned |-> (block = "off" /\ blocks._off.closed),
                      afterClose |-> closed, by |-> block]
           /\ clock' = rasterTime
           /\ ticks' = c.ticks
           /\ IF c.panic
              THEN /\ panicked' = "close of closed token"
                   /\ blocks' = c.blocks /\ hclosed' = c.hclosed
                   /\ hist' = Keyed(hist, blocks, psc)
                   /\ UNCHANGED <<block, sPc, packerVars>>
              ELSE IF c.needNextBlock
              THEN NextBlock(c.blocks, c.hclosed, Keyed(hist, blocks, psc))
              ELSE /\ blocks' = c.blocks /\ hclosed' = c.hclosed
                   /\ hist' = Keyed(hist, blocks, psc)
                   /\ UNCHANGED <<block, sPc, panicked, packerVars>>
    /\ Acknowledged
    /\ UNCHANGED <<closeVars, otherVars>>

Modulate(rasterTime, f) == ModulateCall(rasterTime, f) /\ UNCHANGED calls

\* the call of Next by itself, lines 226 and 231
NextAgain ==
    /\ Running /\ sPc = "next"
    /\ NextBlock(blocks, hclosed, hist)
    /\ Acknowledged
    /\ UNCHANGED <<phaseSwitchCycle, out, clock, ticks, closeVars, testVars>>

\* ---- Close -------------------------------------------------------------
\* variant: Close closes without looking
NeverSeenClosed == FALSE
\* the receive case of Close's select: m.closed is closed already
SeenClosed == closed

\* Close, lines 71-73: the select finds m.closed closed, or takes default
CloseCheck(c) ==
    /\ Running /\ cPc[c] = "idle"
    /\ IF SeenClosed
       THEN /\ cPc' = [cPc EXCEPT ![c] = IF c = "caller" THEN "idle" ELSE "done"]
            /\ closeCalls' = IF c = "caller" THEN More(closeCalls) ELSE closeCalls
       ELSE /\ cPc' = [cPc EXCEPT ![c] = "close"]
            /\ closeCalls' = closeCalls
    /\ UNCHANGED <<closed, panicked, hclosed, producerVars, packerVars, samplerVars,
                   hist, testVars>>

\* the caller's first Close call
CloseOnce == closeCalls = 0 /\ CloseCheck("caller")

\* Close, lines 74-76: close(m.closed), which decides every select waiting on it
CloseDo(c) ==
    /\ Running /\ cPc[c] = "close"
    /\ IF closed
       THEN /\ panicked' = "close of closed m.closed"
            /\ UNCHANGED <<closed, cPc, closeCalls, pPc, kPc>>
       ELSE /\ closed' = TRUE
            /\ panicked' = panicked
            /\ cPc' = [cPc EXCEPT ![c] = IF c = "caller" THEN "idle" ELSE "done"]
            /\ closeCalls' = IF c = "caller" THEN More(closeCalls) ELSE closeCalls
            /\ pPc' = IF pPc = "parkAck" \/ (pPc = "parkByte" /\ ByteSendWatchesClosed)
                      THEN "retAborted" ELSE pPc
            /\ kPc' = IF kPc = "parked" THEN "done" ELSE kPc
    /\ UNCHANGED <<hclosed, pCall, callNo, packer, pend, samplerVars, hist, testVars>>

\* the goroutine of AbortWhenDone, lines 80-86: its select takes the done case
\* and calls Close, whose select finds m.closed closed or takes default; with
\* m.closed closed the goroutine ends either way
AbortWhenDone == CloseCheck("abort")

\* ---- the packer test ----------------------------------------------------
RECURSIVE Patterns(_)
\* the bit patterns of length n that start and end with 1 and hold no two
\* adjacent 0 bits
Patterns(n) ==
    IF n = 1 THEN {<<1>>}
    ELSE IF n = 2 THEN {<<1, 1>>}
    ELSE {Append(b, 1) : b \in Patterns(n - 1)}
         \cup {b \o <<0, 1>> : b \in Patterns(n - 2)}

Ones(n) == [i \in 1 .. n |-> 1]

\* the Symbols the test feeds: Varicode patterns, short ones and the longest,
\* the table entries above, and a Symbol that is no Varicode pattern
TestSymbols ==
    {LeftAlign(b, 1) : b \in UNION {Patterns(n) : n \in 1 .. MaxPatLen}}
    \cup {LeftAlign(Ones(n), 1) : n \in {9, 10, 13, 14}}
    \cup {VaricodeTable[c] : c \in DOMAIN VaricodeTable}
    \cup {65535}

\* TestSymbolPacker: packer.Pack(packed, Varicode[s]) for each input byte
TestPackSymbol(v) ==
    /\ ~tDone /\ Len(tIn) < MaxSymbols
    /\ pPc = "idle" /\ callNo = 0 /\ kPc = "select"
    /\ LET r == Pack(packer, Sym(v))
       IN  /\ packer' = r.p
           /\ tOut' = tOut \o r.emitted
    /\ tIn' = Append(tIn, v)
    /\ UNCHANGED <<tDone, closed, panicked, hclosed, producerVars, kPc, pend,
                   samplerVars, cPc, closeCalls, hist, cw, wspr, calls>>

\* TestSymbolPacker: packer.Pack(packed, make(endToken))
TestPackToken ==
    /\ ~tDone
    /\ pPc = "idle" /\ callNo = 0 /\ kPc = "select"
    /\ LET r == Pack(packer, Token("end", 1))
       IN  /\ packer' = r.p
           /\ tOut' = tOut \o r.emitted
    /\ tDone' = TRUE
    /\ UNCHANGED <<tIn, closed, panicked, hclosed, producerVars, kPc, pend,
                   samplerVars, cPc, closeCalls, hist, cw, wspr, calls>>

\* TestSymbolPacker: the uint8 values read back from packed
Actual == LET u == UnitsOf(tOut) IN [i \in 1 .. Len(u) |-> u[i].val]

\* ---- cw.WriteToSymbolStream, with a context that is never cancelled ------
engineVars == <<closed, panicked, hclosed, producerVars, packerVars, samplerVars,
                cPc, closeCalls, hist, tIn, tOut, tDone, calls>>

\* ---- Modulate called once in every millisecond ---------------------------
\* the raster cell of the call that follows a call in the cell c
NextCell(c) == (c + 1) % raster

\* a Modulate call at a timestamp not before the last one's, in the same
\* cell or in the next one, a and p fed back
RasterCall(rasterTime) ==
    /\ ModulateCall(rasterTime, 0)
    /\ LET boundary == Boundary(rasterTime, phaseSwitchCycle)
           first == calls.n = 0
           newCell == first \/ rasterTime # clock
           newPeriod == rasterTime = 0 /\ newCell
       IN  calls' = [n |-> More(calls.n),
                     cell |-> IF newCell THEN 1 ELSE More(calls.cell),
                     boundary |-> boundary,
                     count |-> IF newPeriod THEN (IF boundary THEN 1 ELSE 0)
                               ELSE IF boundary THEN More(calls.count)
                               ELSE calls.count,
                     later |-> IF newPeriod THEN ~first ELSE calls.later]

\* the call WriteToSymbolStream(ctx, text, symbols), lines 109-111
CwStart(text) ==
    /\ cw.pc = "idle"
    /\ cw' = [s |-> text, text |-> ToLower(text), pc |-> "loop", i |-> 1,
              wasWhitespace |-> TRUE, out |-> <<>>]
    /\ UNCHANGED <<engineVars, wspr>>

\* one pass of the loop over the runes, lines 112-141
CwRune ==
    /\ cw.pc = "loop" /\ cw.i <= Len(cw.text)
    /\ LET r == cw.text[cw.i]
       IN  cw' = IF IsSpace(r)
                 THEN [cw EXCEPT !.i = @ + 1, !.wasWhitespace = TRUE,
                                 !.out = IF cw.wasWhitespace THEN @
                                         ELSE Append(@, WordBreak)]
                 ELSE IF r \notin DOMAIN Code
                 THEN [cw EXCEPT !.i = @ + 1]
                 ELSE [cw EXCEPT !.i = @ + 1, !.wasWhitespace = FALSE,
                                 !.out = @ \o (IF NeedsCharBreak(cw.wasWhitespace)
                                               THEN <<CharBreak>> ELSE <<>>)
                                           \o CodeSymbols(Code[r], 1)]
    /\ UNCHANGED <<engineVars, wspr>>

\* after the loop, lines 142-145
CwEnd ==
    /\ cw.pc = "loop" /\ cw.i > Len(cw.text)
    /\ cw' = [cw EXCEPT !.pc = "done",
                        !.out = IF cw.wasWhitespace THEN @ ELSE Append(@, WordBreak)]
    /\ UNCHANGED <<engineVars, wspr>>

\* ---- wspr.alignCallsign ---------------------------------------------------
\* a call alignCallsign(callsign)
AlignCallsign(callsign) ==
    /\ wspr.pc = "idle"
    /\ wspr' = [pc |-> "done", callsign |-> callsign, result |-> alignCallsign(callsign)]
    /\ UNCHANGED <<engineVars, cw>>

\* ---- specifications -----------------------------------------------------
Next ==
    \/ \E b \in Payloads : StartWrite(b)
    \/ StartEnd
    \/ ProducerSend
    \/ ByteSelect
    \/ AckSelect
    \/ Return
    \/ PackerSelect
    \/ PackerSend
    \/ \E rt \in SampleCells : Modulate(rt, 0)
    \/ NextAgain
    \/ CloseOnce
    \/ CloseDo("caller")

Spec == Init /\ [][Next]_vars

\* the caller calls Close again and again; the producer writes "-A" and ends
\* the session
NextClose ==
    \/ StartWrite(<<45, 65>>)
    \/ StartEnd
    \/ ProducerSend
    \/ ByteSelect
    \/ AckSelect
    \/ Return
    \/ PackerSelect
    \/ PackerSend
    \/ \E rt \in SampleCells : Modulate(rt, 0)
    \/ NextAgain
    \/ CloseCheck("caller")
    \/ CloseDo("caller")

SpecClose == Init /\ [][NextClose]_vars

\* the producer ends the session with the last of its calls
EndLast == callNo = MaxCalls - 1 /\ StartEnd

\* the sampler goes on calling Modulate, in the boundary cell and in the
\* plateau, and a call that has begun is finished; the producer writes "-A"
\* and ends the session with the last of its MaxCalls calls, Close is called
\* once
NextLive ==
    \/ StartWrite(<<45, 65>>)
    \/ EndLast
    \/ ProducerSend
    \/ ByteSelect
    \/ AckSelect
    \/ Return
    \/ PackerSelect
    \/ PackerSend
    \/ \E rt \in SampleCells : Modulate(rt, 0)
    \/ NextAgain
    \/ CloseOnce
    \/ CloseDo("caller")

SpecLive ==
    /\ Init /\ [][NextLive]_vars
    /\ \A rt \in SampleCells : WF_vars(Modulate(rt, 0))
    /\ WF_vars(NextAgain)

\* the sampler calls Modulate at non-decreasing timestamps and leaves out no
\* millisecond; the producer writes "-A" and ends the session with the last
\* of its calls
NextRaster ==
    \/ StartWrite(<<45, 65>>)
    \/ EndLast
    \/ ProducerSend
    \/ ByteSelect
    \/ AckSelect
    \/ Return
    \/ PackerSelect
    \/ PackerSend
    \/ \E rt \in {clock, NextCell(clock)} : RasterCall(rt)
    \/ NextAgain

SpecRaster == Init /\ [][NextRaster]_vars

\* the sampler calls Modulate once in every millisecond and feeds back what
\* the call before returned; the producer writes "-A" and ends the session
\* with the last of its calls; Close is called once, at any moment
NextFade ==
    \/ StartWrite(<<45, 65>>)
    \/ EndLast
    \/ ProducerSend
    \/ ByteSelect
    \/ AckSelect
    \/ Return
    \/ PackerSelect
    \/ PackerSend
    \/ Modulate(NextCell(clock), 0)
    \/ NextAgain
    \/ CloseOnce
    \/ CloseDo("caller")

SpecFade == Init /\ [][NextFade]_vars

\* AbortWhenDone(done) was called and done fires at any moment, the caller
\* calls Close once; the producer writes "-A" and ends the session with the
\* last of its calls
NextAbort ==
    \/ StartWrite(<<45, 65>>)
    \/ EndLast
    \/ ProducerSend
    \/ ByteSelect
    \/ AckSelect
    \/ Return
    \/ PackerSelect
    \/ PackerSend
    \/ \E rt \in SampleCells : Modulate(rt, 0)
    \/ NextAgain
    \/ CloseOnce
    \/ CloseDo("caller")
    \/ AbortWhenDone
    \/ CloseDo("abort")

SpecAbort == Init /\ [][NextAbort]_vars

\* the producer writes bytes above 0x7F
NextHigh ==
    \/ \E b \in HighPayloads : StartWrite(b)
    \/ StartEnd
    \/ ProducerSend
    \/ ByteSelect
    \/ AckSelect
    \/ Return
    \/ PackerSelect
    \/ PackerSend
    \/ \E rt \in SampleCells : Modulate(rt, 0)
    \/ NextAgain
    \/ CloseOnce
    \/ CloseDo("caller")

SpecHigh == Init /\ [][NextHigh]_vars

\* the sampler calls Modulate once in every millisecond and feeds back what
\* the call before returned; the producer writes "-A" and ends the session
NextTimed ==
    \/ StartWrite(<<45, 65>>)
    \/ StartEnd
    \/ ProducerSend
    \/ ByteSelect
    \/ AckSelect
    \/ Return
    \/ PackerSelect
    \/ PackerSend
    \/ Modulate(NextCell(clock), 0)
    \/ NextAgain

SpecTimed == Init /\ [][NextTimed]_vars

NextCw ==
    \/ \E t \in Texts : CwStart(t)
    \/ CwRune
    \/ CwEnd

SpecCw == Init /\ [][NextCw]_vars

NextWspr == \E c \in Callsigns : AlignCallsign(c)

SpecWspr == Init /\ [][NextWspr]_vars

NextPack ==
    \/ \E v \in TestSymbols : TestPackSymbol(v)
    \/ TestPackToken

SpecPack == Init /\ [][NextPack]_vars

\* ======================================================================
\* Properties
\* ======================================================================

\* ---- helpers of the properties ----------------------------------------
RECURSIVE TrailingZeros(_)
TrailingZeros(v) == IF v % 2 = 1 THEN 0 ELSE 1 + TrailingZeros(v \div 2)

\* the significant bits of a left-aligned pattern, most significant first
SigLen(v) == 16 - TrailingZeros(v)
SigBits(v) == [i \in 1 .. SigLen(v) |-> Bit(v, 16 - i)]

\* a Varicode pattern: starts and ends with 1, no two adjacent 0 bits, at
\* most 14 significant bits
IsVaricode(v) ==
    /\ v \in 1 .. 65535
    /\ Bit(v, 15) = 1
    /\ SigLen(v) <= 14
    /\ \A i \in 1 .. SigLen(v) - 1 : SigBits(v)[i] = 1 \/ SigBits(v)[i + 1] = 1

RECURSIVE StreamBits(_)
\* each pattern followed by two 0 bits
StreamBits(in) ==
    IF in = <<>> THEN <<>> ELSE SigBits(Head(in)) \o <<0, 0>> \o StreamBits(Tail(in))

CeilDiv8(n) == (n + 7) \div 8

\* the bit stream b cut into units of 8 bits, the last one padded with 0 bits
UnitsOfBits(b) ==
    [u \in 1 .. CeilDiv8(Len(b)) |->
        LET bitAt(k) == IF 8 * (u - 1) + k <= Len(b) THEN b[8 * (u - 1) + k] ELSE 0
        IN  bitAt(1) * 128 + bitAt(2) * 64 + bitAt(3) * 32 + bitAt(4) * 16
            + bitAt(5) * 8 + bitAt(6) * 4 + bitAt(7) * 2 + bitAt(8)]

Chars(str) == [i \in 1 .. Len(str) |-> Varicode(str[i])]

\* ---- C4 -----------------------------------------------------------------
\* C4: Varicode patterns packed by a fresh symbolPacker and followed by one
\* token come out as each pattern followed by two 0 bits, padded with 0 bits
\* to whole units: ceil(sum(len_i + 2) / 8) units, none for empty input; with
\* the instances of the packer test.
C4_PackedStream ==
    tDone =>
        /\ (\A i \in 1 .. Len(tIn) : IsVaricode(tIn[i])) =>
              /\ Actual = UnitsOfBits(StreamBits(tIn))
              /\ Len(Actual) = CeilDiv8(Len(StreamBits(tIn)))
        /\ tIn = <<>> => Actual = <<>>
        /\ tIn = Chars(<<97, 97, 97>>) => Actual = <<178, 203, 0>>
        /\ tIn = Chars(<<97, 97, 116>>) => Actual = <<178, 202, 0>>
        /\ tIn = Chars(<<65>>) => Actual = <<250, 0>>
        /\ tIn = Chars(<<66>>) => Actual = <<235, 0>>
        /\ tIn = Chars(<<45>>) => Actual = <<212>>

C4_Witness ==
    /\ tDone
    /\ tIn = Chars(<<97, 97, 116>>)
    /\ Actual = <<178, 202, 0>>

\* ---- C5 -----------------------------------------------------------------
\* what a token finds in the accumulator, padded to a full unit
PaddedUnit == (packer.out * Pow2(8 - packer.outBitIndex)) % 256

\* the packer test feeds the token while the accumulator is partially filled
TokenOnPartialUnit == ~tDone /\ tDone' /\ packer.outBitIndex # 0

\* C5 as stated: the padded unit, one more all-zero unit exactly when the two
\* low bits of the padded unit are both 0, then the token.
C5_ExtraWhenLowBitsZero ==
    [][TokenOnPartialUnit =>
          tOut' = tOut \o <<Unit(PaddedUnit)>>
                       \o (IF PaddedUnit % 4 = 0 THEN <<Unit(0)>> ELSE <<>>)
                       \o <<Token("end", 1)>>]_vars

\* C5, amended: a token that finds the accumulator partially filled makes the
\* packer send the padded unit, one more all-zero unit exactly when the two
\* low bits of the padded unit are NOT both 0, and then the token.
C5_ExtraWhenLowBitsSet ==
    [][TokenOnPartialUnit =>
          tOut' = tOut \o <<Unit(PaddedUnit)>>
                       \o (IF PaddedUnit % 4 # 0 THEN <<Unit(0)>> ELSE <<>>)
                       \o <<Token("end", 1)>>]_vars

\* "aA" leaves 7 bits in the accumulator and sixteen 1 bits keep it at 7: the
\* token then finds 1111111, which is padded to 11111110 and followed by the
\* all-zero unit
C5_Witness ==
    /\ tDone
    /\ tIn = <<Varicode(97), Varicode(65), 65535>>
    /\ tOut = <<Unit(179), Unit(233), Unit(255), Unit(254), Unit(0), Token("end", 1)>>

\* ---- C1 -----------------------------------------------------------------
\* C1: Write returns (len(bytes), nil) only after its end-of-message marker
\* has been dequeued and acknowledged, and then every unit packed from its
\* bytes has been dequeued and keyed to its end by a Transmit segment (8 bits,
\* or the one bit of an all-zero unit).
C1_WriteAcknowledged ==
    (pPc = "retOK" /\ pCall.kind = "write") =>
        /\ hclosed[pCall.h2]
        /\ pCall.n = Len(pCall.bytes)
        /\ pend = <<>> /\ hist.queued = 0
        /\ hist.unkeyed = 0

\* "-A" has returned nil; its last unit is the all-zero one, keyed with one bit
C1_Witness ==
    /\ pPc = "retOK" /\ pCall.kind = "write" /\ pCall.bytes = <<45, 65>>
    /\ block = "transmit" /\ blocks._transmit.bits = 0 /\ hist.keyed = 1

\* ---- C2 -----------------------------------------------------------------
\* C2: once Close has been called, every Write and End call returns
\* ErrWriteAborted: a call started after Close enqueues no token, no call
\* returns nil after Close, and no call is left blocked for ever (the producer
\* waiting in a send on symbols that has no select, the packer gone).
C2_AbortedAfterClose ==
    /\ pCall.afterClose => pCall.enq = 0
    /\ pPc = "retOK" => ~pCall.retClosed
    /\ ~(closed /\ kPc = "done" /\ pPc \in {"sendPre", "sendLast"})

\* ---- C3 -----------------------------------------------------------------
\* C3 as stated: every Modulate call that begins after Close has returned
\* yields amplitude 0.
C3_ZeroAfterClose == out.afterClose => out.amplitude = 0

\* C3, amended: every Modulate call that begins once the sequencer has
\* switched to Off with closed = true yields amplitude 0; until the active
\* segment asks for the next block and Next takes its closed case the calls
\* after Close are served by that segment.
C3_ZeroOncePinned == out.pinned => out.amplitude = 0

\* a pinned call, made while the packer still waits to hand over a unit
C3_Witness ==
    /\ out.pinned /\ out.afterClose /\ out.amplitude = 0
    /\ kPc = "sending" /\ Head(pend).type = "unit"

\* ---- C6 -----------------------------------------------------------------
\* the calls so far are Writes of non-empty payloads, then at most one End,
\* and Close has not been called
Uninterrupted == hist.shape \in {"writes", "ended"} /\ ~closed /\ cPc["caller"] = "idle"

\* C6: in an uninterrupted run the activations are Off, one Preamble, only
\* Transmit segments (one per packed unit), one End; the preamble markers of
\* the later Writes are acknowledged without a Preamble counting down for them.
C6_Framing ==
    Uninterrupted =>
        /\ hist.nPre <= 1 /\ hist.nEnd <= 1
        /\ block = "off" =>
              hist.nPre = 0 /\ ~hist.sent /\ hist.nEnd = 0 /\ ~blocks._off.closed
        /\ block = "preamble" => hist.nPre = 1 /\ ~hist.sent /\ hist.nEnd = 0
        /\ block = "transmit" => hist.nPre = 1 /\ hist.sent /\ hist.nEnd = 0
        /\ block = "end" =>
              /\ hist.nPre = 1 /\ hist.sent /\ hist.nEnd = 1
              /\ hist.queued = 0 /\ hist.unkeyed = 0
        /\ hclosed[1] => ticks[1] = preambleLength
        /\ \A k \in 2 .. callNo : ticks[2 * k - 1] = 0

\* two Writes and End, no Close: the End segment is active, the second
\* Write's preamble marker is acknowledged
C6_Witness ==
    /\ Uninterrupted /\ hist.shape = "ended" /\ callNo = 3
    /\ block = "end" /\ hclosed[3] /\ hist.nPre = 1

\* ---- C7 -----------------------------------------------------------------
\* C7: End() returns nil only after the End segment opened by its own marker
\* has counted endLength boundary ticks; not while that segment still counts
\* and not before it was entered.
C7_EndAcknowledged ==
    (pPc = "retOK" /\ pCall.kind = "end") =>
        /\ hclosed[pCall.h2]
        /\ ticks[pCall.h2] = endLength
        /\ ~(block = "end" /\ blocks._end.token = pCall.h2 /\ blocks._end.cycles > 0)

C7_Witness ==
    /\ pPc = "retOK" /\ pCall.kind = "end"
    /\ block = "end" /\ blocks._end.token = pCall.h2 /\ blocks._end.cycles = 0
    /\ ticks[pCall.h2] = endLength

\* ---- C8 -----------------------------------------------------------------
\* C8: after Close no byte of a Write is accepted by the packer, so the n
\* returned with ErrWriteAborted counts bytes enqueued before Close only and
\* no unit is packed from a later byte.
C8_NoByteAfterClose ==
    /\ pCall.late = 0
    /\ (pPc = "retAborted" /\ pCall.kind = "write") =>
          pCall.n = pCall.early

\* a Write of two bytes aborted by Close after its first byte
C8_Witness ==
    /\ closed /\ pPc = "retAborted" /\ pCall.kind = "write"
    /\ Len(pCall.bytes) = 2 /\ pCall.n = 1 /\ ~pCall.afterClose

\* ---- C9 -----------------------------------------------------------------
\* C9 as stated: a call served by Off with closed = true returns amplitude 0,
\* the carrier frequency and the phase the caller fed back.
C9_PhaseKept ==
    [][out'.pinned =>
          /\ out'.amplitude = 0
          /\ out'.frequency = carrierFrequency
          /\ out'.phase = out.phase]_vars

\* C9, amended: a call served by Off with closed = true returns amplitude 0,
\* the carrier frequency and phase 0, whatever phase the caller fed back: the
\* phase is constant after the pin, and the first such call resets a phase of
\* pi to 0.
C9_PinnedOutput ==
    out.pinned =>
        /\ out.amplitude = 0
        /\ out.frequency = carrierFrequency
        /\ out.phase = 0

\* a pinned call after a Preamble and a Transmit segment were active
C9_Witness ==
    /\ out.pinned /\ out.phase = 0 /\ out.frequency = carrierFrequency
    /\ hist.nPre = 1 /\ hist.sent

\* ---- C10 ----------------------------------------------------------------
\* C10: Close calls made one after the other all return nil, none panics, and
\* the cancellation signal stays set after the first.
C10_CloseIdempotent ==
    /\ panicked # "close of closed m.closed"
    /\ closeCalls >= 1 => closed

\* two Close calls have returned
C10_Witness == closeCalls = 2 /\ closed /\ panicked = "none" /\ cPc["caller"] = "idle"

\* ---- C11 ----------------------------------------------------------------
\* the bytes of the current call that are below 0x80
LowBytes == {j \in 1 .. Len(pCall.bytes) : pCall.bytes[j] < 128}

\* the loop of Write has gone through all its bytes
LoopDone == pCall.kind = "write" /\ pPc \in {"sendLast", "selAck", "parkAck", "retOK"}

\* C11 as stated: Write skips every byte above 0x7F: no Data token is
\* enqueued for it (and no error is returned because of it).
C11_HighByteSkipped ==
    pCall.kind = "write" => Len(pCall.data) <= Cardinality(LowBytes)

\* C11, amended: Write skips no byte: every byte b, also one above 0x7F, is
\* enqueued as the Data token Varicode[b & 0x7F] and counted in n, and no error
\* is returned because of it.
C11_HighByteMasked ==
    /\ pCall.kind = "write" =>
          /\ Len(pCall.data) = pCall.n
          /\ \A j \in 1 .. pCall.n : pCall.data[j] = VaricodeTable[pCall.bytes[j] % 128]
    /\ LoopDone => pCall.n = Len(pCall.bytes)
    /\ (pPc = "retAborted" /\ pCall.kind = "write") => closed

\* Write(0xC1) has returned 1, nil after enqueueing the pattern of 'A'
C11_Witness ==
    /\ pPc = "retOK" /\ pCall.bytes = <<193>> /\ pCall.n = 1
    /\ pCall.data = <<VaricodeTable[65]>> /\ ~closed

\* ---- C12 ----------------------------------------------------------------
IsPrefix(a, b) == Len(a) <= Len(b) /\ \A i \in 1 .. Len(a) : a[i] = b[i]

\* the units that hold the bits of the bytes of the current call
UnitsOfCall == UnitsOfBits(StreamBits(Chars(pCall.bytes)))

\* the handle is the preamble handle of some Write
IsPreambleHandle(h) == h % 2 = 1

\* blocks.Next takes the item at the head of the packed queue
Dequeues == kPc = "sending" /\ pend' # pend

\* the units dequeued since the preamble marker of the current call
C12_UnitsInOrder ==
    /\ hist.got # <<>> => IsPreambleHandle(hist.lastTok)
    /\ (pCall.kind = "write" /\ hist.lastTok = pCall.h1) =>
          IsPrefix(hist.got, UnitsOfCall)

\* the item dequeued in a step and what was dequeued before it
C12_ItemInOrder ==
    Dequeues =>
        LET s == Head(pend)
        IN  /\ pend' = Tail(pend)
            /\ s.type = "unit" => hist'.got = Append(hist.got, s.val)
            /\ s.type # "unit" =>
                  /\ s.h > hist.lastTok
                  /\ hist'.lastTok = s.h
                  /\ UnitsOf(pend) = <<>> /\ hist.queued = 0
            /\ s.type = "pre" => IsPreambleHandle(s.h)
            /\ s.type = "eot" => hist.lastTok = s.h - 1
            /\ (s.type = "eot" /\ s.h = pCall.h2) => hist.got = UnitsOfCall

\* C12: the packed queue delivers for each Write its preamble marker, then
\* the units holding its bytes' bits in byte order, then its end-of-message
\* marker, every item of a call before any item of a later call, each token
\* with the handle it was made with and after all units of the data written
\* before it.
C12_ProgramOrder == []C12_UnitsInOrder /\ [][C12_ItemInOrder]_vars

\* the three units of "-A" have been dequeued after its preamble marker, and
\* its end-of-message marker is the next item
C12_Witness ==
    /\ pCall.bytes = <<45, 65>> /\ hist.lastTok = pCall.h1
    /\ hist.got = <<212, 250, 0>>
    /\ kPc = "sending" /\ Head(pend) = Token("eot", pCall.h2)

\* ---- C13 ----------------------------------------------------------------
\* C13: no acknowledgement handle is closed twice: neither blocks.Next nor a
\* Preamble or End segment ever closes a closed token, so the sequencer does
\* not panic on a double close; a handle is closed only by the countdown
\* that counted for it or by Next passing its marker through.
C13_ClosedOnce ==
    /\ panicked # "close of closed token"
    /\ \A h \in Handles :
          LET length == IF IsPreambleHandle(h) THEN preambleLength ELSE endLength
          IN  /\ ticks[h] <= length
              /\ hclosed[h] => ticks[h] \in {0, length}

\* the preamble marker of the second Write was passed through during
\* Transmit, and the End segment stays active with its handle closed
C13_Witness ==
    /\ hclosed[3] /\ ticks[3] = 0 /\ hclosed[1] /\ ticks[1] = preambleLength
    /\ block = "end" /\ blocks._end.cycles = 0 /\ hclosed[blocks._end.token]
    /\ panicked = "none"

\* ---- C14 ----------------------------------------------------------------
\* no packed item is ready: the packer is not waiting in a send on packed
NothingReady == kPc # "sending"

\* the sampler is between two Modulate calls or about to repeat Next after an
\* acknowledged marker, never waiting in a select
NeverBlocks == sPc \in {"idle", "next"}

\* C14 as stated: Modulate never blocks, and in every reachable state, the
\* engine being closed included, the current segment is kept when no packed
\* item is ready.
C14_KeptWhenNothingReady ==
    []NeverBlocks /\ [][NothingReady => block' = block]_vars

\* C14, amended: Modulate never blocks; when no packed item is ready and the
\* engine is not closed the current segment is kept, and when the engine is
\* closed a segment that asks for the next block is replaced by Off with
\* closed = true.
C14_KeptUnlessClosed ==
    /\ []NeverBlocks
    /\ [][NothingReady =>
            \/ block' = block
            \/ closed /\ block' = "off" /\ blocks'._off.closed]_vars

\* a finished Transmit segment asks for the next block in every call and is
\* kept: the marker is acknowledged, the packer waits for the producer
C14_Witness ==
    /\ block = "transmit" /\ blocks._transmit.finished /\ sPc = "idle"
    /\ kPc = "parked" /\ pPc = "idle" /\ hclosed[2] /\ ~closed

\* ---- C15 ----------------------------------------------------------------
RECURSIVE WordsOf(_, _, _)
\* the words of the text t from position k on, cur being the word begun:
\* maximal runs without whitespace, reduced to their runes with a code,
\* without the words that have none
WordsOf(t, k, cur) ==
    LET closedWord == IF cur = <<>> THEN <<>> ELSE <<cur>>
    IN  IF k > Len(t) THEN closedWord
        ELSE IF IsSpace(t[k]) THEN closedWord \o WordsOf(t, k + 1, <<>>)
        ELSE IF t[k] \in DOMAIN Code THEN WordsOf(t, k + 1, Append(cur, t[k]))
        ELSE WordsOf(t, k + 1, cur)

RECURSIVE Elements(_)
\* the elements of one character, a SymbolBreak between them
Elements(code) ==
    IF Len(code) = 1 THEN code
    ELSE <<Head(code), SymbolBreak>> \o Elements(Tail(code))

RECURSIVE WordSymbols(_)
\* the characters of one word, a CharBreak between them
WordSymbols(w) ==
    IF Len(w) = 1 THEN Elements(Code[Head(w)])
    ELSE Elements(Code[Head(w)]) \o <<CharBreak>> \o WordSymbols(Tail(w))

RECURSIVE StreamOfWords(_)
\* every word followed by one WordBreak
StreamOfWords(ws) ==
    IF ws = <<>> THEN <<>>
    ELSE WordSymbols(Head(ws)) \o <<WordBreak>> \o StreamOfWords(Tail(ws))

RECURSIVE WeightSum(_)
WeightSum(o) == IF o = <<>> THEN 0 ELSE Head(o).Weight + WeightSum(Tail(o))

HasMorse(t) == \E k \in 1 .. Len(t) : t[k] \in DOMAIN Code

\* C15: without cancellation, for a text with at least one character of the
\* morse table WriteToSymbolStream writes a stream that starts with a Dit or
\* Da, ends with a WordBreak and alternates key-down and key-up symbols: a
\* SymbolBreak between the elements of a character, a CharBreak between the
\* characters of a word, one WordBreak after each word, nothing for unknown
\* characters and repeated whitespace; "Paris Paris" gives 56 symbols of
\* total weight 100.
C15_MorseStream ==
    cw.pc = "done" =>
        /\ cw.out = StreamOfWords(WordsOf(cw.text, 1, <<>>))
        /\ HasMorse(cw.text) =>
              /\ cw.out # <<>>
              /\ cw.out[1] \in {Dit, Da}
              /\ cw.out[Len(cw.out)] = WordBreak
              /\ \A k \in 1 .. Len(cw.out) - 1 :
                    cw.out[k].KeyDown # cw.out[k + 1].KeyDown
        /\ cw.s = ParisParis => Len(cw.out) = 56 /\ WeightSum(cw.out) = 100

\* "Paris Paris" has been written
C15_Witness ==
    /\ cw.pc = "done" /\ cw.s = ParisParis
    /\ Len(cw.out) = 56 /\ WeightSum(cw.out) = 100

\* ---- C16 ----------------------------------------------------------------
\* the layout of an aligned callsign
IsAligned(a) ==
    /\ Len(a) = 6
    /\ a = ToUpper(a)
    /\ isNumber(a[1]) \/ isLetter(a[1]) \/ isSpace(a[1])
    /\ isLetter(a[2])
    /\ isNumber(a[3])
    /\ isSuffix(a[4]) /\ isSuffix(a[5]) /\ isSuffix(a[6])

\* one space in front when the second character is a digit, spaces behind,
\* upper case; strings of more than 6 characters are left as they are
Layout(c) ==
    LET prefixed == IF Len(c) >= 2 /\ isNumber(c[2]) THEN <<32>> \o c ELSE c
    IN  ToUpper(PadTo6(prefixed))

\* C16: for every input string, also one shorter than two characters,
\* alignCallsign returns an error or the 6 upper-case bytes of the layout
\* (digit, letter or space; letter; digit; three letters or spaces) made by
\* one space in front when the second character is a digit and spaces behind,
\* and it returns an error for every input that does not fit this layout.
C16_ErrorOrAligned ==
    wspr.pc = "done" =>
        /\ wspr.result.kind \in {"ok", "error"}
        /\ wspr.result.kind = "ok" =>
              /\ IsAligned(wspr.result.aligned)
              /\ wspr.result.aligned = Layout(wspr.callsign)
        /\ ~IsAligned(Layout(wspr.callsign)) => wspr.result.kind = "error"

\* ---- C17 ----------------------------------------------------------------
\* a Modulate call is served by a Transmit segment that still has bits
TransmitServes == sPc = "idle" /\ block = "transmit" /\ ~blocks._transmit.finished

\* the step is a Modulate call that is a boundary tick: cell 0 after a call
\* in another cell
BoundaryTick == sPc = "idle" /\ phaseSwitchCycle /\ ~phaseSwitchCycle'

\* the call leaves the Transmit segment and its unit in place, k bits consumed
TransmitGoesOn(k) ==
    /\ block' = "transmit"
    /\ blocks'._transmit = [blocks._transmit EXCEPT !.bitIndex = k]

\* the call asked for the next block: the segment is left finished, or Next
\* replaced it
TransmitAsksNext ==
    \/ block' = "transmit" /\ blocks'._transmit.finished
    \/ block' = "transmit" /\ blocks'._transmit.bitIndex = 0 /\ hist'.keyed = 0
    \/ block' # "transmit"

\* C17: in a Transmit segment a boundary tick consumes one bit of the unit,
\* most significant first; a 0 bit flips the phase, a 1 bit leaves it; other
\* ticks consume nothing; the segment asks for the next block after its 8th
\* bit, or after its first bit when the unit is all-zero, and not before.
C17_BitPerBoundaryTick ==
    [][TransmitServes =>
          LET t == blocks._transmit
              bit == (t.bits \div Pow2(7 - t.bitIndex)) % 2
              last == t.bitIndex + 1 = 8 \/ t.bits = 0
          IN  IF BoundaryTick
              THEN /\ out'.phase = IF bit = 0 THEN Flip(out.phase) ELSE out.phase
                   /\ IF last THEN TransmitAsksNext
                              ELSE TransmitGoesOn(t.bitIndex + 1)
              ELSE /\ TransmitGoesOn(t.bitIndex)
                   /\ out'.phase = out.phase]_vars

\* five bits of the unit 11111010 of "-A" have been keyed
C17_Witness ==
    /\ block = "transmit" /\ blocks._transmit.bits = 250
    /\ blocks._transmit.bitIndex = 5 /\ ~blocks._transmit.finished
    /\ hist.keyed = 5 /\ ~closed

\* ---- C18 ----------------------------------------------------------------
Keying == {"preamble", "transmit", "end"}

\* the step is a Modulate call of the sampler that calls once a millisecond
TimedCall == sPc = "idle" /\ clock' = NextCell(clock) /\ out'.by = block

Distance(x, y) == IF x > y THEN x - y ELSE y - x

\* C18: with the returned amplitude fed back and a call in every millisecond,
\* the amplitudes returned by two consecutive calls served by Preamble,
\* Transmit or End segments differ by at most 1/window; in particular the
\* End segment goes from full amplitude to 0 through the fall window.
C18_NoAmplitudeStep ==
    [][(TimedCall /\ out.by \in Keying /\ block \in Keying) =>
          Distance(out'.amplitude, out.amplitude) <= 1]_vars

\* ---- C19 ----------------------------------------------------------------
\* the step is a Modulate call served by an End segment that is counting down
EndCounts ==
    /\ sPc = "idle" /\ block = "end"
    /\ blocks._end.cycles > 0 /\ ~hclosed[blocks._end.token]

\* the call is a boundary tick: the End segment has counted it
EndTick == ticks'[blocks._end.token] = ticks[blocks._end.token] + 1

\* C19 as stated: while an End segment is counting down, every boundary tick
\* flips the returned phase, as in the Preamble segment.
C19_EndFlipsPhase ==
    [][(EndCounts /\ EndTick) => out'.phase = Flip(out.phase)]_vars

\* C19, amended: an End segment never changes the phase: every call it
\* serves, boundary tick or not, returns the phase the caller fed back (a
\* steady carrier), unlike the Preamble segment, which flips the phase on
\* every boundary tick.
C19_EndKeepsPhase ==
    [][(sPc = "idle" /\ block = "end") => out'.phase = out.phase]_vars

\* an End segment has counted three boundary ticks
C19_Witness ==
    /\ block = "end" /\ blocks._end.cycles = endLength - 3
    /\ ticks[blocks._end.token] = 3 /\ out.by = "end"

\* ---- C20 ----------------------------------------------------------------
\* C20: the sequencer never moves from Off directly to End: an End segment
\* is entered only when the segment active just before it is Preamble or
\* Transmit, also when End() is called on a fresh modulator.
C20_EndOnlyAfterKeying ==
    [][(block' = "end" /\ block # "end") => block \in {"preamble", "transmit"}]_vars

\* ---- C21 ----------------------------------------------------------------
\* blocks.Next takes a preamble marker from the packed queue
DequeuesPreamble == Dequeues /\ Head(pend).type = "pre"

\* the step leaves a Preamble segment with a full count for the marker taken
OpensPreamble ==
    /\ block' = "preamble"
    /\ blocks'._preamble = [cycles |-> preambleLength, token |-> Head(pend).h]

\* C21: a preamble marker opens a new Preamble segment only if the segment
\* active when it is dequeued is Off or End; a marker dequeued while Transmit
\* is active is acknowledged at once and leaves the Transmit segment active;
\* a marker dequeued in any other segment, such as the used up Preamble an
\* empty Write leaves behind, starts no new Preamble of preambleLength cycles.
C21_PreambleFromOffOrEnd ==
    [][DequeuesPreamble =>
          /\ OpensPreamble => block \in {"off", "end"}
          /\ block = "transmit" =>
                /\ block' = "transmit" /\ blocks'._transmit = blocks._transmit
                /\ hclosed'[Head(pend).h]
                /\ blocks'._preamble = blocks._preamble]_vars

\* ---- C22 ----------------------------------------------------------------
\* End() has returned nil to its caller and Close has not been called
EndReturned ==
    /\ pPc = "idle" /\ pCall.kind = "end" /\ hclosed[pCall.h2]
    /\ ticks[pCall.h2] = endLength /\ ~closed

\* C22: an End segment that has counted its endLength boundary ticks
\* acknowledges the end marker's handle and the current segment becomes Off:
\* after End() has returned, with nothing queued, the active segment is Off
\* and not End.
C22_OffAfterEnd ==
    (EndReturned /\ NothingReady /\ sPc = "idle") => block = "off"

\* ---- C23 ----------------------------------------------------------------
\* the sequencer is in Off with closed = true
Pinned == block = "off" /\ blocks._off.closed

\* C23: after Close, with Modulate called on and on in every cell and
\* finitely many producer calls, the engine eventually enters Off with
\* closed = true and never leaves it, whatever is still queued.
C23_EventuallyPinned == closed ~> []Pinned

\* pinned after a Transmit segment was active, while the packer still waits to
\* hand over a token and the sampler has gone on calling
C23_Witness ==
    /\ Pinned /\ closed /\ hist.sent /\ out.pinned /\ ~phaseSwitchCycle
    /\ kPc = "sending" /\ Head(pend).type # "unit"

\* ---- C24 ----------------------------------------------------------------
\* C24: with Modulate called at non-decreasing timestamps that leave out no
\* millisecond cell, in every baud period that begins after the first call
\* exactly one call is a phase switch boundary, the first call in cell 0;
\* further calls in that cell are no boundaries, and no call in the cells 1
\* to raster - 1 is one.
C24_OneBoundaryPerPeriod ==
    /\ calls.boundary => clock = 0
    /\ calls.later =>
          /\ calls.boundary <=> (clock = 0 /\ calls.cell = 1)
          /\ calls.count = 1

\* a further call in cell 0 of a later period, served by a Preamble segment
\* that has counted, is no boundary
C24_Witness ==
    /\ calls.later /\ clock = 0 /\ calls.cell = 2 /\ ~calls.boundary
    /\ calls.count = 1 /\ block = "preamble" /\ ticks[1] = 3

\* ---- C25 ----------------------------------------------------------------
\* a Modulate call is served by a Preamble segment
PreambleServes == sPc = "idle" /\ block = "preamble"

\* the call asked for the next block: a waiting item is taken, and with
\* nothing waiting the Preamble segment is kept as it is (Close not called)
PreambleAsksNext ==
    ~closed =>
        /\ kPc = "sending" => pend' = Tail(pend)
        /\ NothingReady =>
              /\ block' = "preamble"
              /\ blocks'._preamble = [blocks._preamble EXCEPT !.cycles = 0]

\* the call did not ask for the next block: a waiting item is not taken
PreambleGoesOn(k) ==
    /\ block' = "preamble"
    /\ kPc = "sending" => pend' = pend
    /\ blocks'._preamble = [blocks._preamble EXCEPT !.cycles = k]

C26_PhaseKeptOffBoundary ==
    [][(sPc = "idle" /\ out.by = block /\ ~BoundaryTick) =>
          out'.phase = out.phase]_vars

\* a call in the plateau served by a Transmit segment in the middle of its
\* unit has returned the phase pi of the call before
C26_Witness ==
    /\ out.by = "transmit" /\ block = "transmit" /\ clock = 16 /\ phaseSwitchCycle
    /\ out.phase = 1 /\ blocks._transmit.bitIndex = 3 /\ blocks._transmit.bits = 212

\* ---- C27 ----------------------------------------------------------------
\* C27: from amplitude 0 and with the returned amplitude fed back, every
\* Modulate call returns an amplitude between 0 and 1 (0 .. window in units of
\* 1/window), and every call served by the Off segment returns exactly 0.
C27_AmplitudeInRange ==
    /\ out.amplitude \in 0 .. window
    /\ out.by = "off" => out.amplitude = 0

\* a call in the fall window, served by Off after a Close that came while the
\* carrier was keyed at full level, has returned 0
C27_Witness ==
    /\ out.by = "off" /\ out.afterClose /\ out.amplitude = 0
    /\ clock = 25 /\ hist.keyed > 0

\* ---- C28 ----------------------------------------------------------------
\* C28: concurrent calls of Close, one by the goroutine of AbortWhenDone and
\* one by the caller, close m.closed at most once: no interleaving of the
\* check and the close ends in the panic of closing a closed channel.
C28_NoDoubleClose == panicked # "close of closed m.closed"

\* ---- C29 ----------------------------------------------------------------
\* a Modulate call is served by a Transmit segment whose unit is exhausted
TransmitIdles == sPc = "idle" /\ block = "transmit" /\ blocks._transmit.finished

\* the number of bits a Transmit segment keys from the unit
BitsOf(bits) == IF bits = 0 THEN 1 ELSE 8

\* an exhausted Transmit segment flips the phase on every boundary tick and on
\* no other tick, and with nothing to dequeue and the engine not closed it
\* stays the current block with its unit as it is
C29_IdleFlips ==
    TransmitIdles =>
        /\ out'.phase = IF BoundaryTick THEN Flip(out.phase) ELSE out.phase
        /\ (NothingReady /\ ~closed) =>
              block' = "transmit" /\ blocks'._transmit = blocks._transmit

\* a dequeued unit becomes the unit of the Transmit segment, keyed from its
\* first bit, and the unit it replaces has been keyed to its last bit
C29_UnitAfterUnit ==
    (Dequeues /\ Head(pend).type = "unit") =>
        /\ block' = "transmit"
        /\ blocks'._transmit =
              [bits |-> Head(pend).val, bitIndex |-> 0, finished |-> FALSE]
        /\ hist'.unkeyed = 1 /\ hist'.keyed = 0

\* the unit of the Transmit segment changes only when a unit is dequeued, and
\* its position only then and when a boundary tick keys a bit of it
C29_UnitStays ==
    /\ blocks'._transmit.bits # blocks._transmit.bits =>
          Dequeues /\ Head(pend).type = "unit"
    /\ blocks'._transmit # blocks._transmit =>
          \/ Dequeues /\ Head(pend).type = "unit"
          \/ TransmitServes /\ BoundaryTick

\* the bits keyed from the unit of the Transmit segment are its first bits,
\* all of them when the segment is finished; a unit leaves the Transmit
\* segment only when it is exhausted
C29_UnitKeyedOnce ==
    /\ block = "transmit" =>
          /\ hist.keyed = IF blocks._transmit.finished
                          THEN BitsOf(blocks._transmit.bits)
                          ELSE blocks._transmit.bitIndex
          /\ hist.unkeyed = IF blocks._transmit.finished THEN 0 ELSE 1
    /\ block # "transmit" => hist.unkeyed = 0

PackerBlocked == kPc = "sending"

\* with Off pinned nothing receives from packed any more: the packer that
\* waits in a send then waits there in every later state
C30_BlockedForGood ==
    [][(Pinned /\ PackerBlocked) => (Pinned' /\ PackerBlocked')]_vars

\* C30: after Close the packer goroutine terminates; in no reachable state is
\* it left waiting in a send on packed with the engine pinned to Off, which
\* dequeues nothing.
C30_PackerNotLeftSending == Pinned => ~PackerBlocked

====
